---- MODULE Spec2Model ----
(***************************************************************************)
(* A model of src/include/ra/sv_set.hpp: the sorted-vector set             *)
(* ra::container::sv_set and the intrusive list ra::intrusive::list.       *)
(*                                                                         *)
(* Positions (iterators) of a set are 0-based indices into its buffer, as  *)
(* Key* arithmetic relative to arr_.  A set is a record of its members     *)
(* arr_, size_, capacity_, comp_ together with what the heap knows about   *)
(* the buffer arr_ refers to: the number of slots it was allocated with    *)
(* (alloc), whether it has been released (freed), and the values of the    *)
(* objects in slots [0, size_) (elems).                                    *)
(***************************************************************************)
EXTENDS Integers, Sequences, FiniteSets, TLC

(* ---------------------------- bounds ----------------------------------- *)
MaxKey == 2
MaxLen == 3
MaxCap == 4

Keys     == 0..MaxKey
Sets     == {"a", "b"}
Comps    == {"less", "greater"}
KeyKinds == {"trivial", "class"}

VARIABLES sv_set, keyKind, ret, hooks, list, owner, lret, moves

svars == <<sv_set, keyKind, ret>>
lvars == <<hooks, list, owner, lret, moves>>
vars  == <<sv_set, keyKind, ret, hooks, list, owner, lret, moves>>

(* ---------------------- the element type Key --------------------------- *)
\* The value a Key object holds after std::uninitialized_move_n has moved
\* from it: a trivially copyable Key (int, double) keeps its value, a class
\* type (std::string) is left holding its empty value, 0.
moved(v) == IF keyKind = "class" THEN 0 ELSE v

\* Whether constructing a Key by copy can throw: only for a class type.
MayThrow == keyKind = "class"

(* ---------------------- the comparison object -------------------------- *)
\* A default-constructed key_compare.
DefaultComp == "less"

\* comp_(x, y)
comp(c, x, y) == IF c = "less" THEN x < y ELSE x > y

\* Strictly ascending under c: what ordered_and_unique_range promises.
Ordered(a, c) == \A i \in 1..(Len(a) - 1) : comp(c, a[i], a[i + 1])

(* ------------------------- std::lower_bound ---------------------------- *)
RECURSIVE lb_search(_, _, _, _, _)
lb_search(a, first, len, x, c) ==
    IF len <= 0 THEN first
    ELSE LET half == len \div 2
             mid  == first + half
         IN  IF comp(c, a[mid + 1], x)
             THEN lb_search(a, mid + 1, len - half - 1, x, c)
             ELSE lb_search(a, first, half, x, c)

\* std::lower_bound(arr_, arr_ + size_, x, comp_) - arr_
lower_bound(S, x) == lb_search(S.elems, 0, S.size_, x, S.comp_)

(* ----------------------------- results --------------------------------- *)
\* What the last call was and what it returned: the operation, the set it
\* was called on, its argument, the returned position and flag, whether it
\* left by an exception, the number of objects still alive in a buffer the
\* call released, and the memory errors the call committed:
\*   "oob"   an access to a slot outside [0, alloc) of the buffer,
\*   "uaf"   an access to a slot of a released buffer,
\*   "dfree" a second release of a released buffer.
Ret(op, s, x, pos, ok, exc, und, mem) ==
    [op |-> op, s |-> s, x |-> x, pos |-> pos, ok |-> ok, exc |-> exc,
     und |-> und, mem |-> mem]

NoRet == Ret("none", "a", 0, 0, FALSE, FALSE, 0, {})

\* The errors of reading or writing the slots [0, n) through arr_.
Touch(S, n) ==
    IF S.freed THEN (IF n > 0 THEN {"uaf"} ELSE {})
    ELSE IF n > S.alloc THEN {"oob"} ELSE {}

\* The errors of ::operator delete(arr_).
Release(S) == IF S.arr_ = "buf" /\ S.freed THEN {"dfree"} ELSE {}

(* ------------------------------ sv_set --------------------------------- *)
\* sv_set(): arr_(nullptr), size_(0), capacity_(0), comp_ default-constructed.
Empty(c) ==
    [alive |-> TRUE, arr_ |-> "null", alloc |-> 0, freed |-> FALSE,
     elems |-> <<>>, size_ |-> 0, capacity_ |-> 0, comp_ |-> c]

\* Storage that holds no sv_set object (before construction, after ~sv_set).
NoObject == [Empty(DefaultComp) EXCEPT !.alive = FALSE]

\* The outcome of a call on one set: the set afterwards and what was returned.
Out(S, r) == [set |-> S, ret |-> r]

\* insert, lines 401 and 447:  it == end() || comp_(x, *it)
absent(S, x, it) ==
    IF it = S.size_ THEN TRUE ELSE comp(S.comp_, x, S.elems[it + 1])

\* A growth by one slot instead of by doubling.
grow_by_one(S) == S.capacity_ + 1

\* insert, lines 402 and 419: the capacity of the buffer a full set grows to.
new_capacity(S) == S.capacity_ * 2

\* insert, size_ == capacity_ (lines 399-424).  x is absent and goes to index
\* it.  bad_alloc: ::operator new throws; throws: the copy of x throws, after
\* the prefix was moved to the new buffer, whose catch block releases the
\* buffer without destroying the it objects already moved into it.
insert_realloc(n, S, x, it, bad_alloc, throws) ==
    LET cap    == new_capacity(S)
        prefix == SubSeq(S.elems, 1, it)
        suffix == SubSeq(S.elems, it + 1, S.size_)
        rd     == Touch(S, S.size_)
        wr     == IF S.size_ + 1 > cap THEN {"oob"} ELSE {}
    IN  IF bad_alloc
        THEN Out(S, Ret("insert", n, x, 0, FALSE, TRUE, 0, {}))
        ELSE IF throws
        THEN Out([S EXCEPT !.elems = [i \in 1..S.size_ |->
                                  IF i <= it THEN moved(S.elems[i])
                                             ELSE S.elems[i]]],
                 Ret("insert", n, x, 0, FALSE, TRUE, it,
                     Touch(S, it) \cup (IF it + 1 > cap THEN {"oob"} ELSE {})))
        ELSE Out([S EXCEPT !.arr_ = "buf", !.alloc = cap, !.freed = FALSE,
                           !.elems = prefix \o <<x>> \o suffix,
                           !.size_ = S.size_ + 1, !.capacity_ = cap],
                 Ret("insert", n, x, it, TRUE, FALSE,
                     IF keyKind = "class" THEN S.size_ ELSE 0,
                     rd \cup wr \cup Release(S)))

\* An insert that grows the buffer whether or not the set is full.
insert_always_grows(n, S, x, it, throws, junk) ==
    insert_realloc(n, S, x, it, FALSE, throws)

\* insert, size_ != capacity_ (lines 445-457).  The loop
\*   for (it2 = end(); it2 != it - 1; --it2) uninitialized_move_n(it2 - 1, 1, it2)
\* moves slot it2 - 1 into slot it2 for it2 = size_ down to it: its last
\* round moves slot it - 1 (the element before the insertion point, or for
\* it = 0 the memory before the buffer, read as junk) into slot it, which
\* the copy of x then overwrites.  throws: the copy of x throws.
insert_shift(n, S, x, it, throws, junk) ==
    LET e        == S.elems
        before   == IF it = 0 THEN {"oob"} ELSE {}
        mem      == Touch(S, S.size_ + 1) \cup before
        at(i)    == IF i = 0 THEN junk ELSE e[i]
        shifted  == [i \in 1..(S.size_ + 1) |->
                        IF i < it THEN e[i]
                        ELSE IF i = it THEN moved(e[i])
                        ELSE at(i - 1)]
    IN  IF throws
        THEN Out([S EXCEPT !.elems = SubSeq(shifted, 1, S.size_)],
                 Ret("insert", n, x, 0, FALSE, TRUE, 0, mem))
        ELSE Out([S EXCEPT !.elems = [shifted EXCEPT ![it + 1] = x],
                           !.size_ = S.size_ + 1],
                 Ret("insert", n, x, it, TRUE, FALSE, 0, mem))

\* std::pair<iterator, bool> insert(const key_type& x)
insert(n, S, x, bad_alloc, throws, junk) ==
    LET it == lower_bound(S, x)
    IN  IF S.size_ = S.capacity_
        THEN IF absent(S, x, it)
             THEN insert_realloc(n, S, x, it, bad_alloc, throws)
             ELSE Out(S, Ret("insert", n, x, it, FALSE, FALSE, 0,
                             Touch(S, S.size_)))
        ELSE IF absent(S, x, it)
             THEN insert_shift(n, S, x, it, throws, junk)
             ELSE Out(S, Ret("insert", n, x, it, FALSE, FALSE, 0,
                             Touch(S, S.size_)))

\* An erase that does not move the tail down: the last element is lost
\* instead of the one at pos.
erase_without_shift(n, S, i) ==
    IF i < S.size_
    THEN Out([S EXCEPT !.elems = SubSeq(S.elems, 1, S.size_ - 1),
                       !.size_ = S.size_ - 1],
             Ret("erase", n, i, i, FALSE, FALSE, 0, Touch(S, S.size_)))
    ELSE Out(S, Ret("erase", n, i, i, FALSE, FALSE, 0, {}))

\* iterator erase(const_iterator pos), pos == arr_ + i
erase(n, S, i) ==
    IF i < S.size_
    THEN Out([S EXCEPT !.elems = SubSeq(S.elems, 1, i)
                                 \o SubSeq(S.elems, i + 2, S.size_),
                       !.size_ = S.size_ - 1],
             Ret("erase", n, i, i, FALSE, FALSE, 0, Touch(S, S.size_)))
    ELSE Out(S, Ret("erase", n, i, i, FALSE, FALSE, 0, {}))

\* iterator find(const key_type& k)
find(n, S, k) ==
    Out(S, Ret("find", n, k, lower_bound(S, k), FALSE, FALSE, 0,
               Touch(S, S.size_)))

\* A clear that gives up the capacity as well.
clear_capacity(S) == [S EXCEPT !.elems = <<>>, !.size_ = 0, !.capacity_ = 0]

\* void clear() noexcept
clear(S) == [S EXCEPT !.elems = <<>>, !.size_ = 0]

\* A buffer just obtained from ::operator new(m * sizeof(key_type)) that
\* holds the objects a: the values of arr_, alloc, freed and elems.
Fresh(S, m, a) ==
    [S EXCEPT !.arr_ = "buf", !.alloc = m, !.freed = FALSE, !.elems = a]

\* A relocation that clears the set before it copies: a failure leaves the
\* set empty.
relocate_clearing_first(op, n, S, m, bad_alloc, throws) ==
    IF bad_alloc \/ throws
    THEN Out([S EXCEPT !.elems = <<>>, !.size_ = 0],
             Ret(op, n, m, 0, FALSE, TRUE, 0, {}))
    ELSE Out([S EXCEPT !.arr_ = "buf", !.alloc = m, !.freed = FALSE,
                       !.capacity_ = m],
             Ret(op, n, m, 0, FALSE, FALSE, 0, {}))

\* reserve and shrink_to_fit, lines 312-328 and 349-365: copy the size_
\* elements into a new buffer of m slots, clear(), release the old buffer
\* and adopt the new one with capacity_ = m.  bad_alloc: ::operator new
\* throws; throws: a copy throws, the catch block releases the new buffer.
relocate(op, n, S, m, bad_alloc, throws) ==
    IF bad_alloc \/ throws
    THEN Out(S, Ret(op, n, m, 0, FALSE, TRUE, 0,
                    IF bad_alloc THEN {} ELSE Touch(S, S.size_)))
    ELSE Out([Fresh(S, m, S.elems) EXCEPT !.capacity_ = m],
             Ret(op, n, m, 0, FALSE, FALSE, 0,
                 Touch(S, S.size_) \cup Release(S)
                 \cup (IF S.size_ > m THEN {"oob"} ELSE {})))

\* A reserve that grows to twice what is asked for.
reserve_doubling(n, S, m, bad_alloc, throws) ==
    IF m > S.capacity_
    THEN LET o == relocate("reserve", n, S, 2 * m, bad_alloc, throws)
         IN  Out(o.set, [o.ret EXCEPT !.x = m])
    ELSE Out(S, Ret("reserve", n, m, 0, FALSE, FALSE, 0, {}))

\* void reserve(size_type n)
reserve(n, S, m, bad_alloc, throws) ==
    IF m > S.capacity_
    THEN relocate("reserve", n, S, m, bad_alloc, throws)
    ELSE Out(S, Ret("reserve", n, m, 0, FALSE, FALSE, 0, {}))

\* A shrink_to_fit that keeps one spare slot.
shrink_with_spare(n, S, bad_alloc, throws) ==
    IF S.capacity_ > S.size_
    THEN relocate("shrink_to_fit", n, S, S.size_ + 1, bad_alloc, throws)
    ELSE Out(S, Ret("shrink_to_fit", n, 0, 0, FALSE, FALSE, 0, {}))

\* void shrink_to_fit()
shrink_to_fit(n, S, bad_alloc, throws) ==
    IF S.capacity_ > S.size_
    THEN relocate("shrink_to_fit", n, S, S.size_, bad_alloc, throws)
    ELSE Out(S, Ret("shrink_to_fit", n, 0, 0, FALSE, FALSE, 0, {}))

\* The outcome of a call on two sets: *this, the other set, what was returned.
Out2(D, O, r) == [set |-> D, other |-> O, ret |-> r]

\* A swap that leaves each comparator where it was.
swap_without_comp(n, D, O) ==
    Out2([O EXCEPT !.comp_ = D.comp_], [D EXCEPT !.comp_ = O.comp_],
         Ret("swap", n, 0, 0, FALSE, FALSE, 0, {}))

\* void swap(sv_set& x): arr_, size_, capacity_ and comp_ are exchanged.
swap(n, D, O) == Out2(O, D, Ret("swap", n, 0, 0, FALSE, FALSE, 0, {}))

\* The members of a moved-from set, lines 118-120 and 147-149.
MovedFromSet(O) ==
    [O EXCEPT !.arr_ = "null", !.alloc = 0, !.freed = FALSE, !.elems = <<>>,
              !.size_ = 0, !.capacity_ = 0]

\* sv_set(sv_set&& other): arr_, size_ and capacity_ are taken from other;
\* comp_ is not named by the constructor and is default-constructed.
move_construct(n, O) ==
    Out2([O EXCEPT !.comp_ = DefaultComp], MovedFromSet(O),
         Ret("move_construct", n, 0, 0, FALSE, FALSE, 0, {}))

\* sv_set& operator=(sv_set&& other), this != &other: clear(), release the
\* buffer, take arr_, size_ and capacity_ from other; comp_ is not assigned.
move_assign(n, D, O) ==
    Out2([O EXCEPT !.comp_ = D.comp_], MovedFromSet(O),
         Ret("move_assign", n, 0, 0, FALSE, FALSE, 0,
             Touch(D, D.size_) \cup Release(D)))

\* arr_ after ::operator delete(arr_): it still refers to the buffer, which
\* no longer holds any slot.
Released(S) ==
    IF S.arr_ = "buf" THEN [S EXCEPT !.alloc = 0, !.freed = TRUE] ELSE S

\* The capacity_ a copy records, lines 173 and 204.
copied_capacity(O) == O.capacity_

\* sv_set(const sv_set& other) : sv_set().  A failure leaves no object: the
\* catch block releases the buffer, and the destructor of the object the
\* delegated-to constructor completed releases arr_ a second time.
copy_construct(n, O, bad_alloc, throws) ==
    IF O.size_ > 0
    THEN IF bad_alloc
         THEN Out(NoObject, Ret("copy_construct", n, 0, 0, FALSE, TRUE, 0, {}))
         ELSE IF throws
         THEN Out(NoObject, Ret("copy_construct", n, 0, 0, FALSE, TRUE, 0,
                                Touch(O, O.size_) \cup {"dfree"}))
         ELSE Out([Fresh(O, O.size_, O.elems) EXCEPT
                       !.capacity_ = copied_capacity(O)],
                  Ret("copy_construct", n, 0, 0, FALSE, FALSE, 0,
                      Touch(O, O.size_)))
    ELSE Out(Empty(DefaultComp),
             Ret("copy_construct", n, 0, 0, FALSE, FALSE, 0, {}))

\* sv_set& operator=(const sv_set& other), this != &other: clear() and
\* release the buffer first (arr_ keeps referring to it), then, if other
\* holds elements, allocate other.size() slots and copy.
copy_assign(n, D, O, bad_alloc, throws) ==
    LET gone == Released(clear(D))
        mem  == Touch(D, D.size_) \cup Release(D)
    IN  IF O.size_ > 0
        THEN IF bad_alloc
             THEN Out(gone, Ret("copy_assign", n, 0, 0, FALSE, TRUE, 0, mem))
             ELSE IF throws
             THEN Out(Released([gone EXCEPT !.arr_ = "buf"]),
                      Ret("copy_assign", n, 0, 0, FALSE, TRUE, 0,
                          mem \cup Touch(O, O.size_)))
             ELSE Out([Fresh(O, O.size_, O.elems) EXCEPT
                           !.capacity_ = copied_capacity(O)],
                      Ret("copy_assign", n, 0, 0, FALSE, FALSE, 0,
                          mem \cup Touch(O, O.size_)))
        ELSE Out(gone, Ret("copy_assign", n, 0, 0, FALSE, FALSE, 0, mem))

\* A bulk construction that keeps the default-constructed comparator.
range_construct_default_comp(n, a, c, bad_alloc, throws) ==
    IF bad_alloc
    THEN Out(NoObject, Ret("range_construct", n, 0, 0, FALSE, TRUE, 0, {}))
    ELSE IF throws
    THEN Out(NoObject,
             Ret("range_construct", n, 0, 0, FALSE, TRUE, 0, {"dfree"}))
    ELSE Out([Fresh(Empty(DefaultComp), Len(a), a) EXCEPT
                  !.size_ = Len(a), !.capacity_ = Len(a)],
             Ret("range_construct", n, 0, 0, FALSE, FALSE, 0, {}))

\* sv_set(ordered_and_unique_range, first, n, comp) : sv_set(), with the
\* range a.  A failure leaves no object, as in copy_construct.
range_construct(n, a, c, bad_alloc, throws) ==
    IF bad_alloc
    THEN Out(NoObject, Ret("range_construct", n, 0, 0, FALSE, TRUE, 0, {}))
    ELSE IF throws
    THEN Out(NoObject,
             Ret("range_construct", n, 0, 0, FALSE, TRUE, 0, {"dfree"}))
    ELSE Out([Fresh(Empty(c), Len(a), a) EXCEPT
                  !.size_ = Len(a), !.capacity_ = Len(a)],
             Ret("range_construct", n, 0, 0, FALSE, FALSE, 0, {}))

\* ~sv_set(): clear(), release the buffer.
destroy(n, S) ==
    Out(NoObject, Ret("destroy", n, 0, 0, FALSE, FALSE, 0,
                      Touch(S, S.size_) \cup Release(S)))

(* --------------------------- set actions ------------------------------- *)
\* The failures a call may meet: ::operator new may always throw, the copy of
\* a Key only for a class type.
Throwing == IF MayThrow THEN BOOLEAN ELSE {FALSE}

\* The elements of the set K of keys in ascending order under c.
RECURSIVE ascending(_, _)
ascending(K, c) ==
    IF K = {} THEN <<>>
    ELSE LET first == CHOOSE x \in K : \A y \in K \ {x} : comp(c, x, y)
         IN  <<first>> \o ascending(K \ {first}, c)

\* The ranges of at most room elements a caller may pass as ordered and
\* unique under c.
Ranges(c, room) ==
    {ascending(K, c) : K \in {J \in SUBSET Keys : Cardinality(J) <= room}}

\* A call is taken when no call is in progress: ret holds its result until
\* the caller has taken it (Return).
Idle == ret = NoRet

\* The Key objects the sets hold and the buffer slots they own.
RECURSIVE Sum(_, _)
Sum(f, D) ==
    IF D = {} THEN 0
    ELSE LET d == CHOOSE d \in D : TRUE IN f[d] + Sum(f, D \ {d})

Objects(sv) == Sum([n \in Sets |-> sv[n].size_], Sets)
Slots(sv) ==
    Sum([n \in Sets |-> IF sv[n].freed THEN 0 ELSE sv[n].alloc], Sets)

\* The runs explored: at most MaxLen objects and MaxCap slots at a time.
Bounded(sv) == Objects(sv) <= MaxLen /\ Slots(sv) <= MaxCap

Apply(n, o) ==
    /\ sv_set' = [sv_set EXCEPT ![n] = o.set]
    /\ Bounded(sv_set')
    /\ ret' = o.ret
    /\ UNCHANGED <<keyKind, hooks, list, owner, lret, moves>>

Apply2(n, m, o) ==
    /\ sv_set' = [sv_set EXCEPT ![n] = o.set, ![m] = o.other]
    /\ Bounded(sv_set')
    /\ ret' = o.ret
    /\ UNCHANGED <<keyKind, hooks, list, owner, lret, moves>>

\* The two sets are interchangeable, and swap exchanges them whole: the
\* member functions that take no other set are called on a only, and b gets
\* into every state through the constructors, the destructor, swap, move
\* and copy, which are called on both.
Called == {"a"}

\* Only the inputs a call depends on are varied: an allocation can fail
\* where the call allocates, a copy where it copies, and junk is what the
\* call reads from memory that is not the set's.
Insert ==
    /\ Idle
    /\ \E n \in Called, x \in Keys, bad_alloc \in BOOLEAN, throws \in Throwing,
          junk \in Keys :
        LET S  == sv_set[n]
            it == lower_bound(S, x)
        IN  /\ S.alive
            /\ bad_alloc => S.size_ = S.capacity_ /\ absent(S, x, it)
            /\ throws => ~bad_alloc /\ absent(S, x, it)
            /\ junk # 0 => S.size_ # S.capacity_ /\ absent(S, x, it) /\ it = 0
            /\ Apply(n, insert(n, S, x, bad_alloc, throws, junk))

Erase ==
    /\ Idle
    /\ \E n \in Called, i \in 0..MaxLen :
        /\ sv_set[n].alive
        /\ i <= sv_set[n].size_
        /\ Apply(n, erase(n, sv_set[n], i))

Find ==
    /\ Idle
    /\ \E n \in Called, k \in Keys :
        /\ sv_set[n].alive
        /\ Apply(n, find(n, sv_set[n], k))

Clear ==
    /\ Idle
    /\ \E n \in Called :
        /\ sv_set[n].alive
        /\ Apply(n, Out(clear(sv_set[n]),
                        Ret("clear", n, 0, 0, FALSE, FALSE, 0,
                            Touch(sv_set[n], sv_set[n].size_))))

\* reserve(m) for m below the capacity does not depend on m: m = 0 stands
\* for those calls.
Reserve ==
    /\ Idle
    /\ \E n \in Called, m \in 0..MaxCap, bad_alloc \in BOOLEAN, throws \in Throwing :
        /\ sv_set[n].alive
        /\ m < sv_set[n].capacity_ => m = 0
        /\ bad_alloc => m > sv_set[n].capacity_
        /\ throws => ~bad_alloc /\ m > sv_set[n].capacity_
                         /\ sv_set[n].size_ > 0
        /\ Apply(n, reserve(n, sv_set[n], m, bad_alloc, throws))

ShrinkToFit ==
    /\ Idle
    /\ \E n \in Called, bad_alloc \in BOOLEAN, throws \in Throwing :
        /\ sv_set[n].alive
        /\ bad_alloc => sv_set[n].capacity_ > sv_set[n].size_
        /\ throws => ~bad_alloc /\ sv_set[n].capacity_ > sv_set[n].size_
                         /\ sv_set[n].size_ > 0
        /\ Apply(n, shrink_to_fit(n, sv_set[n], bad_alloc, throws))

Swap ==
    /\ Idle
    /\ \E n \in Sets, m \in Sets :
        /\ n # m
        /\ sv_set[n].alive /\ sv_set[m].alive
        /\ Apply2(n, m, swap(n, sv_set[n], sv_set[m]))

DefaultConstruct ==
    /\ Idle
    /\ \E n \in Sets :
        /\ ~sv_set[n].alive
        /\ Apply(n, Out(Empty(DefaultComp),
                        Ret("default_construct", n, 0, 0, FALSE, FALSE, 0, {})))

\* explicit sv_set(const Compare& comp)
CompConstruct ==
    /\ Idle
    /\ \E n \in Sets, c \in Comps :
        /\ ~sv_set[n].alive
        /\ Apply(n, Out(Empty(c),
                        Ret("comp_construct", n, 0, 0, FALSE, FALSE, 0, {})))

RangeConstruct ==
    /\ Idle
    /\ \E n \in Sets, c \in Comps, bad_alloc \in BOOLEAN, throws \in Throwing :
        /\ ~sv_set[n].alive
        /\ throws => ~bad_alloc
        /\ \E a \in Ranges(c, MaxLen - Objects(sv_set)) :
               /\ throws => Len(a) > 0
               /\ Apply(n, range_construct(n, a, c, bad_alloc, throws))

MoveConstruct ==
    /\ Idle
    /\ \E n \in Sets, m \in Sets :
        /\ n # m
        /\ ~sv_set[n].alive /\ sv_set[m].alive
        /\ Apply2(n, m, move_construct(n, sv_set[m]))

MoveAssign ==
    /\ Idle
    /\ \E n \in Sets, m \in Sets :
        /\ n # m
        /\ sv_set[n].alive /\ sv_set[m].alive
        /\ Apply2(n, m, move_assign(n, sv_set[n], sv_set[m]))

CopyConstruct ==
    /\ Idle
    /\ \E n \in Sets, m \in Sets, bad_alloc \in BOOLEAN, throws \in Throwing :
        /\ n # m
        /\ ~sv_set[n].alive /\ sv_set[m].alive
        /\ bad_alloc => sv_set[m].size_ > 0
        /\ throws => ~bad_alloc /\ sv_set[m].size_ > 0
        /\ Apply(n, copy_construct(n, sv_set[m], bad_alloc, throws))

CopyAssign ==
    /\ Idle
    /\ \E n \in Sets, m \in Sets, bad_alloc \in BOOLEAN, throws \in Throwing :
        /\ n # m
        /\ sv_set[n].alive /\ sv_set[m].alive
        /\ bad_alloc => sv_set[m].size_ > 0
        /\ throws => ~bad_alloc /\ sv_set[m].size_ > 0
        /\ Apply(n, copy_assign(n, sv_set[n], sv_set[m], bad_alloc, throws))

Destroy ==
    /\ Idle
    /\ \E n \in Sets :
        /\ sv_set[n].alive
        /\ Apply(n, destroy(n, sv_set[n]))

\* The caller takes the result of the call.  Once a call has committed a
\* memory error the behaviour of the program is undefined: the model follows
\* a run up to and including that call (its immediate outcome, with what it
\* read from foreign memory left open as junk), and no further.
Return ==
    /\ ~Idle
    /\ ret.mem = {}
    /\ ret' = NoRet
    /\ UNCHANGED <<sv_set, keyKind, hooks, list, owner, lret, moves>>

(* ------------------------ ra::intrusive::list -------------------------- *)
\* Nodes are the addresses of list hooks: NullNode is nullptr, an element
\* (which embeds one hook) is a positive number, the sentinel_ member of a
\* list is a negative one.
NullNode == 0
MaxElem  == 3
\* How many calls on lists a run holds from its first move or swap on, that
\* call included.
MaxMoves == 2
Elems    == 1..MaxElem
Lists    == {"p", "q"}

sentinel_(l) == IF l = "p" THEN 0 - 1 ELSE 0 - 2

Nodes == Elems \cup {sentinel_(l) : l \in Lists}

\* list_hook(): a hook is constructed with null links.
list_hook == [next_ |-> NullNode, prev_ |-> NullNode]

begin(h, l) == h[sentinel_(l)].next_
end(l) == sentinel_(l)

\* operator++ and operator-- of list_iterator.
increment(h, n) == h[n].next_
decrement(h, n) == h[n].prev_

\* What the last call on a list was and what it returned: the operation,
\* the list, its argument (an element, or the sentinel of the other list),
\* the position returned, and whether the call dereferenced a null pointer
\* (fault): such a call does not return and ends the run.
LRet(op, l, e, pos) ==
    [op |-> op, l |-> l, e |-> e, pos |-> pos, at |-> NullNode,
     fault |-> FALSE]
NoLRet == LRet("none", "p", NullNode, NullNode)

LFault(op, l, e) == [LRet(op, l, e, NullNode) EXCEPT !.fault = TRUE]

LOut(h, sz, r) == [hooks |-> h, size_ |-> sz, ret |-> r]

\* An insert that leaves out its last assignment, pos->prev_ = &value.
link_forward_only(h, pos, value) ==
    LET h1 == [h  EXCEPT ![h[pos].prev_].next_ = value]
        h2 == [h1 EXCEPT ![value].next_ = pos]
    IN  [h2 EXCEPT ![value].prev_ = h2[pos].prev_]

\* insert(pos, value): the four pointer assignments in the order of the code.
link_before(h, pos, value) ==
    LET h1 == [h  EXCEPT ![h[pos].prev_].next_ = value]
        h2 == [h1 EXCEPT ![value].next_ = pos]
        h3 == [h2 EXCEPT ![value].prev_ = h2[pos].prev_]
    IN  [h3 EXCEPT ![pos].prev_ = value]

inserted_size(sz) == sz + 1

\* insert dereferences pos and pos->prev_.
insert_faults(h, pos) ==
    IF pos = NullNode THEN TRUE ELSE h[pos].prev_ = NullNode

list_insert(l, h, sz, pos, value) ==
    IF insert_faults(h, pos)
    THEN LOut(h, sz, [LFault("insert", l, value) EXCEPT !.at = pos])
    ELSE LOut(link_before(h, pos, value), inserted_size(sz),
              [LRet("insert", l, value, value) EXCEPT !.at = pos])

\* erase(pos): the neighbours are re-threaded around pos, whose own hook is
\* not written; the position returned is read from it afterwards.
unlink(h, pos) ==
    LET h1 == [h EXCEPT ![h[pos].prev_].next_ = h[pos].next_]
    IN  [h1 EXCEPT ![h1[pos].next_].prev_ = h1[pos].prev_]

erased_size(sz) == sz - 1

\* erase dereferences pos, pos->prev_ and pos->next_.
erase_faults(h, pos) ==
    IF pos = NullNode THEN TRUE
    ELSE IF h[pos].prev_ = NullNode THEN TRUE
    ELSE h[pos].next_ = NullNode

list_erase(l, h, sz, pos) ==
    IF erase_faults(h, pos)
    THEN LOut(h, sz, LFault("erase", l, pos))
    ELSE LET g == unlink(h, pos)
         IN  LOut(g, erased_size(sz), LRet("erase", l, pos, g[pos].next_))

push_back(l, h, sz, x) ==
    LET o == list_insert(l, h, sz, end(l), x)
    IN  LOut(o.hooks, o.size_,
             IF o.ret.fault THEN LFault("push_back", l, x)
             ELSE LRet("push_back", l, x, NullNode))

\* pop_back(): nothing is done on a list whose size is 0.  size_ is a
\* std::size_t, kept here as the representative nearest 0 of its value
\* modulo 2^64 (-1 is SIZE_MAX): size_ > 0 holds unless size_ is 0.
pop_back(l, h, sz) ==
    IF sz # 0
    THEN LET last == decrement(h, end(l))
             o == list_erase(l, h, sz, last)
         IN  LOut(o.hooks, o.size_,
                  IF o.ret.fault THEN LFault("pop_back", l, last)
                  ELSE LRet("pop_back", l, last, NullNode))
    ELSE LOut(h, sz, LRet("pop_back", l, NullNode, NullNode))

(* --------------------------- list actions ------------------------------ *)
\* owner records, for the caller, the list an element was last inserted in
\* and not yet erased from: the code keeps no such record, a caller has to.
Free(e) == owner[e] = "none"

\* The positions of l a caller may pass: end() and the elements l holds.
Positions(l) == {end(l)} \cup {e \in Elems : owner[e] = l}

\* The runs explored: size_ stays within MaxElem of the sizes a list of
\* MaxElem elements can have.
ListBounded(sz) == sz \in (0 - MaxElem)..(2 * MaxElem)

\* The calls counted so far, after one more call: counting starts with the
\* first move or swap.
Counted(moving) == IF moving \/ moves > 0 THEN moves + 1 ELSE 0

LApply(l, o, own) ==
    /\ ~lret.fault
    /\ list[l].alive
    /\ ListBounded(o.size_)
    /\ hooks' = o.hooks
    /\ list' = [list EXCEPT ![l].size_ = o.size_]
    /\ owner' = IF o.ret.fault THEN owner ELSE own
    /\ lret' = o.ret
    /\ moves < MaxMoves
    /\ moves' = Counted(FALSE)
    /\ UNCHANGED svars

ListInsert ==
    \E l \in Lists, value \in Elems :
        /\ Free(value)
        /\ \E pos \in Positions(l) :
               LApply(l, list_insert(l, hooks, list[l].size_, pos, value),
                      [owner EXCEPT ![value] = l])

ListErase ==
    \E l \in Lists :
        \E pos \in Positions(l) \ {end(l)} :
            LApply(l, list_erase(l, hooks, list[l].size_, pos),
                   [owner EXCEPT ![pos] = "none"])

PushBack ==
    \E l \in Lists, x \in Elems :
        /\ Free(x)
        /\ LApply(l, push_back(l, hooks, list[l].size_, x),
                  [owner EXCEPT ![x] = l])

PopBack ==
    \E l \in Lists :
        /\ l \in DOMAIN list
        /\ LApply(l, pop_back(l, hooks, list[l].size_),
                  IF list[l].size_ # 0
                  THEN [e \in Elems |->
                           IF e = decrement(hooks, end(l)) THEN "none"
                           ELSE owner[e]]
                  ELSE owner)

(* ----------------- list: the other public operations ------------------- *)
\* list_hook(const list_hook&): the new hook has null links, whatever the
\* hook it is copied from holds.
hook_copy(from) == list_hook

\* list_hook::operator=(const list_hook&): the target is left as it is.
hook_assign(target, from) == target

\* std::swap(x, y) on two hooks: tmp(std::move(x)); x = std::move(y);
\* y = std::move(tmp).  list_hook declares no move operations, so each
\* step is the copy operation.  The hooks of x and y afterwards.
hook_swap(x, y) ==
    LET tmp == hook_copy(x)
        x1  == hook_assign(x, y)
        y1  == hook_assign(y, tmp)
    IN  <<x1, y1>>

\* A hook linked to itself both ways.
self_linked(n) == [next_ |-> n, prev_ |-> n]

\* clear(): while (size_ > 0) erase(begin()).  With size_ wrapped below 0
\* the loop does not end in any feasible time, which is kept as a call that
\* does not return.
RECURSIVE clear_loop(_, _, _)
clear_loop(l, h, sz) ==
    IF sz = 0 THEN LOut(h, sz, LRet("clear", l, NullNode, NullNode))
    ELSE IF sz < 0 THEN LOut(h, sz, LFault("clear", l, NullNode))
    ELSE LET o == list_erase(l, h, sz, begin(h, l))
         IN  IF o.ret.fault THEN LOut(o.hooks, o.size_, LFault("clear", l, NullNode))
             ELSE clear_loop(l, o.hooks, o.size_)

list_clear(l, h, sz) == clear_loop(l, h, sz)

\* The outcome of a call on two lists: the hooks, the size_ of *this and of
\* the other list, and what was returned.
LOut2(h, sz, osz, r) == [hooks |-> h, size_ |-> sz, other |-> osz, ret |-> r]

\* list(): the sentinel is linked to itself, size_ is 0.
list_default(l, h) ==
    LOut([h EXCEPT ![sentinel_(l)] = self_linked(sentinel_(l))], 0,
         LRet("default_construct", l, NullNode, NullNode))

\* ~list(): clear(), then the sentinel is destroyed, which nulls its links.
list_destroy(l, h, sz) ==
    LET o == list_clear(l, h, sz)
    IN  IF o.ret.fault THEN LOut(o.hooks, o.size_, LFault("destroy", l, NullNode))
        ELSE LOut([o.hooks EXCEPT ![sentinel_(l)] = list_hook], 0,
                  LRet("destroy", l, NullNode, NullNode))

\* list(list&& other) : sentinel_(other.sentinel_), size_(other.size_), then
\* other's sentinel is linked to itself and other.size_ is 0.
list_move_construct(l, other, h, osz) ==
    LET h1 == [h EXCEPT ![sentinel_(l)] = hook_copy(h[sentinel_(other)])]
    IN  LOut2([h1 EXCEPT ![sentinel_(other)] = self_linked(sentinel_(other))],
              osz, 0,
              LRet("move_construct", l, sentinel_(other), NullNode))

\* list& operator=(list&& other), this != &other: clear(), sentinel_ =
\* other.sentinel_, size_ = other.size_, then other is reset as above.
list_move_assign(l, other, h, sz, osz) ==
    LET o == list_clear(l, h, sz)
    IN  IF o.ret.fault
        THEN LOut2(o.hooks, o.size_, osz, LFault("move_assign", l, sentinel_(other)))
        ELSE LET h1 == [o.hooks EXCEPT ![sentinel_(l)] =
                           hook_assign(o.hooks[sentinel_(l)],
                                       o.hooks[sentinel_(other)])]
             IN  LOut2([h1 EXCEPT ![sentinel_(other)] =
                                      self_linked(sentinel_(other))],
                       osz, 0,
                       LRet("move_assign", l, sentinel_(other), NullNode))

\* void swap(list& x): nothing for this == &x, otherwise
\* std::swap(sentinel_, x.sentinel_) and std::swap(size_, x.size_).
list_swap(l, x, h, sz, xsz) ==
    IF l = x
    THEN LOut2(h, sz, xsz, LRet("swap", l, sentinel_(x), NullNode))
    ELSE LET sw == hook_swap(h[sentinel_(l)], h[sentinel_(x)])
         IN  LOut2([h EXCEPT ![sentinel_(l)] = sw[1], ![sentinel_(x)] = sw[2]],
                   xsz, sz, LRet("swap", l, sentinel_(x), NullNode))

\* What the interface tells the caller about the elements afterwards: a
\* list that was cleared or destroyed holds none, a move construction
\* gives the elements of other to *this, move assignment and swap exchange
\* the elements of the two lists.
Given(own, from, to) ==
    [e \in Elems |-> IF own[e] = from THEN to ELSE own[e]]

Exchanged(own, l, x) ==
    [e \in Elems |-> IF own[e] = l THEN x
                     ELSE IF own[e] = x THEN l ELSE own[e]]

\* A call that constructs, destroys or names two lists.
LStep(h, ls, own, r, moving) ==
    /\ ~lret.fault
    /\ moves < MaxMoves
    /\ moves' = Counted(moving)
    /\ \A l \in Lists : ListBounded(ls[l].size_)
    /\ hooks' = h
    /\ list' = ls
    /\ owner' = IF r.fault THEN owner ELSE own
    /\ lret' = r
    /\ UNCHANGED svars

ListClear ==
    \E l \in Lists :
        /\ list[l].alive
        /\ LApply(l, list_clear(l, hooks, list[l].size_),
                  Given(owner, l, "none"))

ListDefaultConstruct ==
    \E l \in Lists :
        /\ ~list[l].alive
        /\ LET o == list_default(l, hooks)
           IN  LStep(o.hooks, [list EXCEPT ![l] = [alive |-> TRUE, size_ |-> 0]],
                     owner, o.ret, FALSE)

ListDestroy ==
    \E l \in Lists :
        /\ list[l].alive
        /\ LET o == list_destroy(l, hooks, list[l].size_)
           IN  LStep(o.hooks,
                     [list EXCEPT ![l] = [alive |-> o.ret.fault, size_ |-> o.size_]],
                     Given(owner, l, "none"), o.ret, FALSE)

ListMoveConstruct ==
    \E l \in Lists, other \in Lists :
        /\ ~list[l].alive
        /\ list[other].alive
        /\ LET o == list_move_construct(l, other, hooks, list[other].size_)
           IN  LStep(o.hooks,
                     [list EXCEPT ![l] = [alive |-> TRUE, size_ |-> o.size_],
                                  ![other].size_ = o.other],
                     Given(owner, other, l), o.ret, TRUE)

ListMoveAssign ==
    \E l \in Lists, other \in Lists :
        /\ l # other
        /\ list[l].alive
        /\ list[other].alive
        /\ LET o == list_move_assign(l, other, hooks, list[l].size_,
                                     list[other].size_)
           IN  LStep(o.hooks,
                     [list EXCEPT ![l].size_ = o.size_, ![other].size_ = o.other],
                     Exchanged(owner, l, other), o.ret, TRUE)

ListSwap ==
    \E l \in Lists, x \in Lists :
        /\ list[l].alive
        /\ list[x].alive
        /\ LET o == list_swap(l, x, hooks, list[l].size_, list[x].size_)
           IN  LStep(o.hooks,
                     IF l = x THEN list
                     ELSE [list EXCEPT ![l].size_ = o.size_, ![x].size_ = o.other],
                     Exchanged(owner, l, x), o.ret, TRUE)

SetInit ==
    /\ sv_set = [n \in Sets |-> Empty(DefaultComp)]
    /\ keyKind \in KeyKinds
    /\ ret = NoRet

\* Two default-constructed lists and MaxElem elements whose hooks are
\* default-constructed.
ListInit ==
    /\ hooks = [n \in Nodes |->
                   IF n \in Elems THEN list_hook
                   ELSE [next_ |-> n, prev_ |-> n]]
    /\ list = [l \in Lists |-> [alive |-> TRUE, size_ |-> 0]]
    /\ owner = [e \in Elems |-> "none"]
    /\ lret = NoLRet
    /\ moves = 0

Init == SetInit /\ ListInit

Next ==
    \/ Insert
    \/ Erase
    \/ Find
    \/ Clear
    \/ Reserve
    \/ ShrinkToFit
    \/ Swap
    \/ DefaultConstruct
    \/ CompConstruct
    \/ RangeConstruct
    \/ MoveConstruct
    \/ MoveAssign
    \/ CopyConstruct
    \/ CopyAssign
    \/ Destroy
    \/ Return

Spec == Init /\ [][Next]_vars

\* The lists under insert, erase, push_back and pop_back.
ListNext ==
    \/ ListInsert
    \/ ListErase
    \/ PushBack
    \/ PopBack

\* The lists hold no Key: the kind of Key is left at one value.
ListStart == Init /\ keyKind = "trivial"

ListSpec == ListStart /\ [][ListNext]_vars

\* The lists under every public operation.
FullListNext ==
    \/ ListInsert
    \/ ListErase
    \/ PushBack
    \/ PopBack
    \/ ListClear
    \/ ListDefaultConstruct
    \/ ListDestroy
    \/ ListMoveConstruct
    \/ ListMoveAssign
    \/ ListSwap

FullListSpec == ListStart /\ [][FullListNext]_vars

(* ----------------------------- properties ------------------------------ *)
\* Two keys are equivalent under c when neither is ordered before the other.
equivalent(c, x, y) == ~comp(c, x, y) /\ ~comp(c, y, x)

\* The set S holds an element equivalent to x.
Holds(S, x) == \E i \in 1..S.size_ : equivalent(S.comp_, S.elems[i], x)

\* This step is a call of op; Callee is the set it is called on, before and
\* AfterCall after the call, Arg its argument.
Calls(op) == Idle /\ ret'.op = op
Callee == sv_set[ret'.s]
AfterCall == sv_set'[ret'.s]
Arg == ret'.x

\* C1: in every reachable state the live elements of every set are strictly
\* ascending under the set's comparator: comp(a[i], a[i+1]) for every
\* adjacent pair, so no two live elements are equivalent.
OrderingInvariant ==
    \A n \in Sets :
        LET S == sv_set[n]
        IN  \A i \in 1..(S.size_ - 1) : comp(S.comp_, S.elems[i], S.elems[i + 1])

\* The node reached from n by k steps along next_ (operator++), and along
\* prev_ (operator--).
RECURSIVE forward(_, _, _)
forward(h, n, k) == IF k = 0 THEN n ELSE forward(h, increment(h, n), k - 1)

RECURSIVE backward(_, _, _)
backward(h, n, k) == IF k = 0 THEN n ELSE backward(h, decrement(h, n), k - 1)

\* The nodes visited by k steps from begin().
Visited(h, l, k) == {forward(h, begin(h, l), i) : i \in 0..(k - 1)}

\* C2: for every list reached by push_back, pop_back, insert and erase,
\* stepping size() times from begin() along next links reaches end(),
\* stepping size() times from end() along previous links reaches begin(),
\* and size() is the number of elements visited on the way.
RingIntegrity ==
    \A l \in Lists :
        LET sz == list[l].size_
        IN  /\ forward(hooks, begin(hooks, l), sz) = end(l)
            /\ backward(hooks, end(l), sz) = begin(hooks, l)
            /\ Visited(hooks, l, sz) \subseteq Elems
            /\ Cardinality(Visited(hooks, l, sz)) = sz

\* A list that holds two elements after an erase from its middle: the
\* position returned and the one before it are elements.
RingIntegrityWitness ==
    /\ lret.op = "erase"
    /\ list[lret.l].size_ = 2
    /\ lret.pos \in Elems
    /\ hooks[lret.pos].prev_ \in Elems

\* C3: find(k) returns the position of the element equivalent to k when the
\* set holds one, and end() when it holds none.
FindContract ==
    [][Calls("find") =>
        IF Holds(Callee, Arg)
        THEN /\ ret'.pos < Callee.size_
             /\ equivalent(Callee.comp_, Callee.elems[ret'.pos + 1], Arg)
        ELSE ret'.pos = Callee.size_]_vars

\* C4: insert(x) on a set that holds an element equivalent to x changes
\* nothing (size, capacity, elements) and returns the position of that
\* element with the flag false.
InsertExistingKey ==
    [][(Calls("insert") /\ Holds(Callee, Arg)) =>
        /\ AfterCall = Callee
        /\ ~ret'.exc
        /\ ~ret'.ok
        /\ ret'.pos < Callee.size_
        /\ equivalent(Callee.comp_, Callee.elems[ret'.pos + 1], Arg)]_vars

\* C5: insert(x) on a set that holds no element equivalent to x returns
\* (p, true) with p the position of the new x, the size grows by 1 and the
\* sequence is the previous one with x put in at p, its sorted position:
\* every previous element keeps its value and relative order.
InsertAbsentKey ==
    [][(Calls("insert") /\ ~Holds(Callee, Arg) /\ ~ret'.exc) =>
        LET S == Callee
            p == ret'.pos
        IN  /\ ret'.ok
            /\ AfterCall.size_ = S.size_ + 1
            /\ p <= S.size_
            /\ AfterCall.elems = SubSeq(S.elems, 1, p) \o <<Arg>>
                                 \o SubSeq(S.elems, p + 1, S.size_)
            /\ \A i \in 1..p : comp(S.comp_, S.elems[i], Arg)
            /\ \A i \in (p + 1)..S.size_ : comp(S.comp_, Arg, S.elems[i])]_vars

\* C6: in every reachable state of every set, capacity() >= size().
CapacityAtLeastSize ==
    \A n \in Sets : sv_set[n].capacity_ >= sv_set[n].size_

\* C7: when the construction of an element fails during a reallocating
\* insert (size == capacity), the failure propagates and the set is as it
\* was before the call: same size, capacity and element values; the objects
\* constructed in the new buffer have been destroyed before it is released.
InsertStrongGuarantee ==
    [][(Calls("insert") /\ Callee.size_ = Callee.capacity_ /\ ret'.exc) =>
        /\ AfterCall = Callee
        /\ ret'.und = 0]_vars

\* C8: inserting an absent key into a full set (size == capacity) whose
\* capacity is c >= 1 leaves capacity == 2 * c and size == c + 1.
GrowthLaw ==
    [][(/\ Calls("insert")
        /\ ~Holds(Callee, Arg)
        /\ Callee.size_ = Callee.capacity_
        /\ Callee.capacity_ >= 1
        /\ ~ret'.exc) =>
        /\ AfterCall.capacity_ = 2 * Callee.capacity_
        /\ AfterCall.size_ = Callee.capacity_ + 1]_vars

\* A full set of capacity 2 has grown to capacity 4 by an insert, which
\* released the old buffer of 2 slots.
GrowthLawWitness ==
    /\ ret.op = "insert"
    /\ ret.ok
    /\ ret.und = 2
    /\ sv_set[ret.s].capacity_ = 4
    /\ sv_set[ret.s].size_ = 3

\* C9: inserting a key into a set whose capacity is 0 grows it to capacity
\* exactly 1, with size 1 and the key stored at begin().
GrowthFromZero ==
    [][(Calls("insert") /\ Callee.capacity_ = 0 /\ Callee.size_ = 0
        /\ ~ret'.exc) =>
        /\ AfterCall.capacity_ = 1
        /\ AfterCall.size_ = 1
        /\ AfterCall.elems = <<Arg>>]_vars

\* C10: after a single insert into a default-constructed set, size() == 1,
\* capacity() == 2 and begin() != end().
FirstInsert ==
    [][(Calls("insert") /\ Callee = Empty(DefaultComp) /\ ~ret'.exc) =>
        /\ AfterCall.size_ = 1
        /\ AfterCall.capacity_ = 2
        /\ AfterCall.size_ # 0]_vars

\* C11: insert on a set with size < capacity never changes capacity, whether
\* the key is inserted or found to be present already.
InsertKeepsCapacity ==
    [][(Calls("insert") /\ Callee.size_ < Callee.capacity_) =>
        AfterCall.capacity_ = Callee.capacity_]_vars

\* A key was inserted into a set of size 1 and capacity 3.
InsertKeepsCapacityWitness ==
    /\ ret.op = "insert"
    /\ ret.ok
    /\ sv_set[ret.s].size_ = 2
    /\ sv_set[ret.s].capacity_ = 3

\* C12: erase at an index i < size removes exactly the element at i, keeps
\* the other elements with their values and order, decreases size by 1,
\* leaves capacity unchanged and returns position i, which then refers to
\* the element that followed the erased one, or is end().
EraseContract ==
    [][(Calls("erase") /\ Arg < Callee.size_) =>
        LET S == Callee
            i == Arg
        IN  /\ AfterCall.elems = SubSeq(S.elems, 1, i)
                                 \o SubSeq(S.elems, i + 2, S.size_)
            /\ AfterCall.size_ = S.size_ - 1
            /\ AfterCall.capacity_ = S.capacity_
            /\ ret'.pos = i
            /\ ~ret'.exc]_vars

\* The middle element of a set of three was erased.
EraseContractWitness ==
    /\ ret.op = "erase"
    /\ ret.x = 1
    /\ ret.pos = 1
    /\ sv_set[ret.s].size_ = 2

\* The nodes met from n along next_ up to stop, at most k of them; a walk
\* that meets a null link, or does not meet stop in k steps, ends with
\* NullNode.
RECURSIVE walk(_, _, _, _)
walk(h, n, stop, k) ==
    IF n = stop THEN <<>>
    ELSE IF n = NullNode THEN <<NullNode>>
    ELSE IF k = 0 THEN <<NullNode>>
    ELSE <<n>> \o walk(h, increment(h, n), stop, k - 1)

\* The same along prev_.
RECURSIVE walk_back(_, _, _, _)
walk_back(h, n, stop, k) ==
    IF n = stop THEN <<>>
    ELSE IF n = NullNode THEN <<NullNode>>
    ELSE IF k = 0 THEN <<NullNode>>
    ELSE <<n>> \o walk_back(h, decrement(h, n), stop, k - 1)

\* The elements of list l from begin() to end(), and from the last one
\* back to end().
Elements(h, l) == walk(h, begin(h, l), end(l), MaxElem + 1)
ElementsBack(h, l) == walk_back(h, decrement(h, end(l)), end(l), MaxElem + 1)

Reverse(s) == [i \in 1..Len(s) |-> s[Len(s) + 1 - i]]
Without(s, e) == SelectSeq(s, LAMBDA x : x # e)

\* C13: insert(p, e) of a free element e at a position p of a list links e
\* immediately before p: afterwards e.next is p, e.prev is the former
\* predecessor of p, that predecessor's next and p's prev are e, the size
\* has grown by 1, the other elements are in the order they were in, and
\* the position returned is e.
ListInsertContract ==
    [][(lret'.op = "insert") =>
        LET l == lret'.l
            e == lret'.e
            p == lret'.at
        IN  /\ ~lret'.fault
            /\ hooks'[e].next_ = p
            /\ hooks'[e].prev_ = hooks[p].prev_
            /\ hooks'[hooks[p].prev_].next_ = e
            /\ hooks'[p].prev_ = e
            /\ list'[l].size_ = list[l].size_ + 1
            /\ e \in {Elements(hooks', l)[i] : i \in 1..Len(Elements(hooks', l))}
            /\ Without(Elements(hooks', l), e) = Elements(hooks, l)
            /\ lret'.pos = e]_vars

\* C14: erase(p) at the position of a linked element of a list removes
\* exactly that element: its former neighbours are adjacent to each other,
\* the size has decreased by 1, the remaining elements are in the order
\* they were in, and the position returned is that of the element that
\* followed p, or end() when p was the last (push_back a, b, c and
\* erase(begin() + 1) leave a, c and size 2).
ListEraseContract ==
    [][(lret'.op = "erase") =>
        LET l == lret'.l
            p == lret'.e
        IN  /\ ~lret'.fault
            /\ hooks'[hooks[p].prev_].next_ = hooks[p].next_
            /\ hooks'[hooks[p].next_].prev_ = hooks[p].prev_
            /\ list'[l].size_ = list[l].size_ - 1
            /\ Elements(hooks, l) # Without(Elements(hooks, l), p)
            /\ Elements(hooks', l) = Without(Elements(hooks, l), p)
            /\ lret'.pos = hooks[p].next_
            /\ lret'.pos \in Elems \cup {end(l)}]_vars

\* The links of a hook in the free state: null, or the hook itself.
FreeLinks(h, n) ==
    /\ h[n].next_ \in {NullNode, n}
    /\ h[n].prev_ \in {NullNode, n}

\* C15: an element removed from a list by erase, directly or through
\* pop_back or clear, has its hook in the free state: its links are null
\* or refer to the hook itself, and refer to no node of the list it was
\* removed from.
HookFreeAfterErase ==
    [][\A e \in Elems :
          (/\ lret'.op \in {"erase", "pop_back", "clear"}
           /\ ~lret'.fault
           /\ owner[e] = lret'.l
           /\ owner'[e] = "none") => FreeLinks(hooks', e)]_vars

\* The list whose sentinel is the node n.
ListOf(n) == CHOOSE l \in Lists : sentinel_(l) = n

\* List l is one closed ring of sz elements: the walk from begin() meets
\* end() after sz elements, the walk back from the last element meets the
\* same elements in reverse, and every node on the ring is the prev_ of its
\* next_ and the next_ of its prev_.
ClosedRing(h, l, sz) ==
    LET fw == Elements(h, l)
    IN  /\ \A i \in 1..Len(fw) : fw[i] \in Elems
        /\ ElementsBack(h, l) = Reverse(fw)
        /\ \A n \in {end(l)} \cup {fw[i] : i \in 1..Len(fw)} :
               /\ h[h[n].next_].prev_ = n
               /\ h[h[n].prev_].next_ = n
        /\ Len(fw) = sz

\* C16: after the move construction of a list dst from a list src, dst
\* holds the former elements of src in their order, its ring closes through
\* its own sentinel both ways, dst.size() is the former size of src, and
\* src is an empty ring of size 0.
ListMoveConstructContract ==
    [][(/\ lret'.op = "move_construct"
        /\ ClosedRing(hooks, ListOf(lret'.e), list[ListOf(lret'.e)].size_)) =>
        LET dst == lret'.l
            src == ListOf(lret'.e)
        IN  /\ ~lret'.fault
            /\ Elements(hooks', dst) = Elements(hooks, src)
            /\ ClosedRing(hooks', dst, list[src].size_)
            /\ list'[dst].size_ = list[src].size_
            /\ ClosedRing(hooks', src, 0)
            /\ list'[src].size_ = 0]_vars

\* C17: after a.swap(b) on two distinct lists the walk of a, forward and
\* backward, yields the former sequence of b and the walk of b the former
\* sequence of a, the sizes are exchanged, and each ring closes through
\* the sentinel of the list that holds it now; a.swap(a) has no effect.
ListSwapContract ==
    [][(/\ lret'.op = "swap"
        /\ \A l \in Lists : ClosedRing(hooks, l, list[l].size_)) =>
        LET a == lret'.l
            b == ListOf(lret'.e)
        IN  /\ ~lret'.fault
            /\ Elements(hooks', a) = Elements(hooks, b)
            /\ Elements(hooks', b) = Elements(hooks, a)
            /\ list'[a].size_ = list[b].size_
            /\ list'[b].size_ = list[a].size_
            /\ ClosedRing(hooks', a, list[b].size_)
            /\ ClosedRing(hooks', b, list[a].size_)
            /\ (a = b) => (hooks' = hooks /\ list' = list)]_vars

\* C18: after the move assignment a = std::move(b) on two distinct lists
\* the elements of the two lists are swapped: a holds the former elements
\* of b and b the former elements of a, each in the order they were in,
\* and the size() of each list is the number of elements it holds.
ListMoveAssignContract ==
    [][(/\ lret'.op = "move_assign"
        /\ \A l \in Lists : ClosedRing(hooks, l, list[l].size_)) =>
        LET a == lret'.l
            b == ListOf(lret'.e)
        IN  /\ ~lret'.fault
            /\ Elements(hooks', a) = Elements(hooks, b)
            /\ Elements(hooks', b) = Elements(hooks, a)
            /\ list'[a].size_ = Len(Elements(hooks', a))
            /\ list'[b].size_ = Len(Elements(hooks', b))]_vars

\* C19: in every state reached under all public operations (default
\* construction, insert, erase, push_back, pop_back, clear, swap, move
\* construction, move assignment) the sentinel and the linked hooks of
\* each list form one closed doubly-linked ring, n.next.prev = n and
\* n.prev.next = n for every node n on it, and size() is the number of
\* elements on that ring.
ListRingInvariant ==
    \A l \in Lists : list[l].alive => ClosedRing(hooks, l, list[l].size_)

\* The set other than n: the source of a move into n.
Other(n) == CHOOSE m \in Sets : m # n

\* This step moves a set S into another one, by construction or by
\* assignment: the destination has the former sequence, size and capacity
\* of S, and S has size 0, capacity 0 and begin() = end().
MoveTransfers ==
    (Calls("move_construct") \/ Calls("move_assign")) =>
        LET S == sv_set[Other(ret'.s)]
        IN  /\ AfterCall.elems = S.elems
            /\ AfterCall.size_ = S.size_
            /\ AfterCall.capacity_ = S.capacity_
            /\ sv_set'[Other(ret'.s)] = MovedFromSet(S)
            /\ sv_set'[Other(ret'.s)].alive

\* This step is an insert into a set in the state a move leaves its source
\* in, and unless an allocation fails it succeeds: the key is inserted
\* and no memory is misused.
MovedFromUsable ==
    (Calls("insert") /\ Callee = MovedFromSet(Callee) /\ ~ret'.exc) =>
        /\ ret'.ok
        /\ ret'.mem = {}
        /\ AfterCall.elems = <<Arg>>
        /\ AfterCall.capacity_ >= AfterCall.size_

\* C20: after the move construction or move assignment of a set from a
\* distinct set S the destination has the former sequence, size and
\* capacity of S, S is empty (size 0, capacity 0, begin() = end()), and S
\* remains usable: a later insert into S succeeds.
SetMoveContract == [][MoveTransfers /\ MovedFromUsable]_vars

\* This step is a copy construction or a copy assignment that completes.
Copies == (Calls("copy_construct") \/ Calls("copy_assign")) /\ ~ret'.exc

\* The destination of a copy has the size and the sequence of the source S,
\* and S is as it was.
CopyCopies ==
    Copies =>
        LET S == sv_set[Other(ret'.s)]
        IN  /\ AfterCall.alive
            /\ AfterCall.size_ = S.size_
            /\ AfterCall.elems = S.elems
            /\ sv_set'[Other(ret'.s)] = S

\* This step is an insert, erase or clear on a set that is as the copy
\* constructor has just made it from the other set, which holds elements:
\* the call stays within the storage of the set it is called on and the
\* other set is as it was.
CopyIndependent ==
    (/\ Calls("insert") \/ Calls("erase") \/ Calls("clear")
     /\ sv_set[Other(ret'.s)].size_ > 0
     /\ Callee = copy_construct(ret'.s, sv_set[Other(ret'.s)], FALSE, FALSE).set) =>
        /\ ret'.mem = {}
        /\ sv_set'[Other(ret'.s)] = sv_set[Other(ret'.s)]

\* C21: after a copy construction or copy assignment from a set S the
\* destination has the size and element sequence of S, S is unchanged, and
\* the two sets are independent: a later insert, erase or clear on one
\* does not change the contents of the other.
CopyContract == [][CopyCopies /\ CopyIndependent]_vars

\* C22: after a copy construction or copy assignment from a set S the
\* comparator of the destination is a copy of the comparator of S, for
\* every S, an empty one included.
CopyCopiesComparator ==
    [][Copies => AfterCall.comp_ = sv_set[Other(ret'.s)].comp_]_vars

\* C23: when the allocation of the buffer or the copy of an element fails
\* during the copy assignment a = b, the failure propagates and a is as it
\* was before the call: same size, capacity and element sequence, and no
\* storage is misused.
CopyAssignStrongGuarantee ==
    [][(Calls("copy_assign") /\ ret'.exc) =>
        /\ AfterCall.size_ = Callee.size_
        /\ AfterCall.capacity_ = Callee.capacity_
        /\ AfterCall.elems = Callee.elems
        /\ ret'.mem = {}]_vars

\* The buffer pointer of every set is null or refers to storage that has
\* not been released.
PointersValid(sv) == \A n \in Sets : ~sv[n].freed

\* C24: over successfully completed operations each set owns at most one
\* buffer, its buffer pointer is null or refers to storage that has not
\* been released, and no buffer is released twice: a call that completes,
\* made when every pointer is valid, leaves every pointer valid and
\* releases no storage a second time.
BufferSafety ==
    [][(Idle /\ ~Idle' /\ ~ret'.exc /\ PointersValid(sv_set)) =>
        /\ PointersValid(sv_set')
        /\ "dfree" \notin ret'.mem]_vars

\* C25: when the copy of an element fails during bulk-range construction
\* or copy construction, the failure propagates and the buffer the
\* constructor allocated is released exactly once over the whole failed
\* construction, the destructor run for the partially built set included:
\* no object is left and no release is a second one.
FailedConstructionReleasesOnce ==
    [][((Calls("range_construct") \/ Calls("copy_construct")) /\ ret'.exc) =>
        /\ ~AfterCall.alive
        /\ "dfree" \notin ret'.mem]_vars

\* The number of element slots of the buffer the set S owns.
allocated(S) == IF S.freed THEN 0 ELSE S.alloc

\* C26: in every state a set reaches without a memory error, capacity() is
\* the number of element slots allocated in the buffer the set owns, so
\* that the slots [size, capacity) are allocated storage.
CapacityIsAllocated ==
    ret.mem = {} =>
        \A n \in Sets :
            sv_set[n].alive => sv_set[n].capacity_ = allocated(sv_set[n])

\* The keys the set S holds.
KeysOf(S) == {S.elems[i] : i \in 1..S.size_}

\* The set bulk construction makes from the keys K, sorted and without
\* duplicates, under the comparator c.
Bulk(K, c) == range_construct("a", ascending(K, c), c, FALSE, FALSE).set

\* C27: inserting keys one at a time, in any order and with repetitions,
\* into a default-constructed set yields what bulk construction from the
\* sorted, de-duplicated keys yields: the same size and the same elements
\* in the same order.  Step by step: the default-constructed set is the
\* bulk construction from no key, and an insert of x into a set that is as
\* the bulk construction from its keys K leaves it, within its own storage,
\* as the bulk construction from K and x.
InsertRoundTrip ==
    [][(/\ Calls("insert")
        /\ ~ret'.exc
        /\ Callee.elems = Bulk(KeysOf(Callee), Callee.comp_).elems) =>
        LET B == Bulk(KeysOf(Callee) \cup {Arg}, Callee.comp_)
        IN  /\ AfterCall.size_ = B.size_
            /\ AfterCall.elems = B.elems
            /\ ret'.mem = {}]_vars

\* C28: after a non-reallocating insert (size < capacity) whose insertion
\* point is index p, every slot with an index below p holds the same
\* object with the same value as before the call, for element types whose
\* move leaves the source in a moved-from state as for trivially copyable
\* ones, and no slot outside the buffer is touched.
InsertFrame ==
    [][(/\ Calls("insert")
        /\ Callee.size_ < Callee.capacity_
        /\ Callee.capacity_ = allocated(Callee)
        /\ ret'.ok) =>
        /\ \A i \in 1..ret'.pos : AfterCall.elems[i] = Callee.elems[i]
        /\ ret'.mem = {}]_vars

\* C29: reserve(n) with n > capacity() makes capacity() exactly n and
\* leaves the size and the element sequence as they were; reserve(n) with
\* n <= capacity() changes nothing; capacity never decreases through
\* reserve.
ReserveContract ==
    [][Calls("reserve") =>
        /\ AfterCall.capacity_ >= Callee.capacity_
        /\ ~ret'.exc =>
              IF Arg > Callee.capacity_
              THEN /\ AfterCall.capacity_ = Arg
                   /\ AfterCall.size_ = Callee.size_
                   /\ AfterCall.elems = Callee.elems
              ELSE AfterCall = Callee]_vars

\* A reserve(3) has returned on a set of two elements.
ReserveContractWitness ==
    /\ ret.op = "reserve"
    /\ ~ret.exc
    /\ ret.x = 3
    /\ sv_set[ret.s].capacity_ = 3
    /\ sv_set[ret.s].size_ = 2

\* C30: shrink_to_fit() on a set with capacity() > size() makes capacity()
\* exactly size() and leaves the size and the element sequence as they
\* were, also when the size is 0; on a set with capacity() = size() it
\* changes nothing; capacity never increases through shrink_to_fit.
ShrinkContract ==
    [][Calls("shrink_to_fit") =>
        /\ AfterCall.capacity_ <= Callee.capacity_
        /\ ~ret'.exc =>
              IF Callee.capacity_ > Callee.size_
              THEN /\ AfterCall.capacity_ = Callee.size_
                   /\ AfterCall.size_ = Callee.size_
                   /\ AfterCall.elems = Callee.elems
              ELSE AfterCall = Callee]_vars

\* A shrink_to_fit has returned on a set of two elements whose buffer has
\* two slots.
ShrinkContractWitness ==
    /\ ret.op = "shrink_to_fit"
    /\ ~ret.exc
    /\ sv_set[ret.s].size_ = 2
    /\ sv_set[ret.s].capacity_ = 2
    /\ sv_set[ret.s].alloc = 2

\* C31: a.swap(b) on two sets exchanges their element sequences, sizes,
\* capacities and comparators: a ends with the former state of b and b with
\* the former state of a, and a second swap gives both sets their original
\* state back.
SwapContract ==
    [][Calls("swap") =>
        LET a == ret'.s
            b == Other(ret'.s)
            again == swap(a, sv_set'[a], sv_set'[b])
        IN  /\ sv_set'[a] = sv_set[b]
            /\ sv_set'[b] = sv_set[a]
            /\ ret'.mem = {}
            /\ again.set = sv_set[a]
            /\ again.other = sv_set[b]]_vars

\* A swap has returned on two sets of different sizes, capacities and
\* comparators.
SwapContractWitness ==
    /\ ret.op = "swap"
    /\ sv_set["a"].comp_ # sv_set["b"].comp_
    /\ sv_set["a"].size_ = 2
    /\ sv_set["b"].size_ = 1
    /\ sv_set["a"].capacity_ # sv_set["b"].capacity_

\* This step is a clear: the set is left with size 0 and no element, and
\* its capacity and its buffer are as they were.
ClearKeepsStorage ==
    Calls("clear") =>
        /\ AfterCall.size_ = 0
        /\ AfterCall.elems = <<>>
        /\ AfterCall = [Callee EXCEPT !.size_ = 0, !.elems = <<>>]

\* This step is an insert into a set with spare capacity, as clear leaves
\* one that had a buffer: the set keeps its buffer and its capacity.
InsertKeepsBuffer ==
    (Calls("insert") /\ Callee.size_ < Callee.capacity_) =>
        /\ AfterCall.arr_ = Callee.arr_
        /\ AfterCall.alloc = Callee.alloc
        /\ AfterCall.freed = Callee.freed
        /\ AfterCall.capacity_ = Callee.capacity_

\* C32: clear() destroys all live elements and leaves size() = 0 and
\* begin() = end() while capacity() and the buffer are unchanged; later
\* inserts up to the old capacity do not reallocate.
ClearContract == [][ClearKeepsStorage /\ InsertKeepsBuffer]_vars

\* A clear has returned on a set with a buffer of three slots.
ClearContractWitness ==
    /\ ret.op = "clear"
    /\ sv_set[ret.s].size_ = 0
    /\ sv_set[ret.s].capacity_ = 3
    /\ sv_set[ret.s].alloc = 3

\* The set S is what the bulk construction from the keys K under the
\* comparator c has made.
BuiltFrom(S, K, c) ==
    S = range_construct("a", ascending(K, c), c, FALSE, FALSE).set

\* C33: a default-constructed or comparator-constructed set has size 0,
\* capacity 0 and begin() = end(); bulk construction from n elements that
\* are strictly ordered and unique under comp yields a set with size n,
\* capacity exactly n, the input elements in the same order and comp as
\* its comparator, for less and for greater.
ConstructorContract ==
    [][/\ (Calls("default_construct") \/ Calls("comp_construct")) =>
            /\ AfterCall.alive
            /\ AfterCall.size_ = 0
            /\ AfterCall.capacity_ = 0
            /\ AfterCall.elems = <<>>
            /\ AfterCall.arr_ = "null"
       /\ (Calls("range_construct") /\ ~ret'.exc) =>
            /\ \E c \in Comps, K \in SUBSET Keys : BuiltFrom(AfterCall, K, c)
            /\ \A c \in Comps, K \in SUBSET Keys :
                   BuiltFrom(AfterCall, K, c) =>
                       /\ AfterCall.alive
                       /\ AfterCall.size_ = Cardinality(K)
                       /\ AfterCall.capacity_ = Cardinality(K)
                       /\ allocated(AfterCall) = Cardinality(K)
                       /\ AfterCall.elems = ascending(K, c)
                       /\ AfterCall.comp_ = c]_vars

\* A bulk construction from two keys descending under less has returned.
ConstructorContractWitness ==
    /\ ret.op = "range_construct"
    /\ ~ret.exc
    /\ sv_set[ret.s].elems = <<2, 1>>
    /\ sv_set[ret.s].comp_ = "greater"

\* back(): *(--end())
back(h, l) == decrement(h, end(l))

\* C34: push_back(x) is insert(end(), x): afterwards x is the last element
\* of the forward traversal, back() refers to x, decrementing end() yields
\* x, the size has grown by 1 and the elements linked before keep their
\* order; pop_back() on a non-empty list removes exactly the element
\* back() referred to.
PushPopBackContract ==
    [][/\ (lret'.op = "push_back") =>
            LET l == lret'.l
                x == lret'.e
                o == list_insert(l, hooks, list[l].size_, end(l), x)
            IN  /\ ~lret'.fault
                /\ hooks' = o.hooks
                /\ list'[l].size_ = o.size_
                /\ Elements(hooks', l) = Elements(hooks, l) \o <<x>>
                /\ back(hooks', l) = x
                /\ list'[l].size_ = list[l].size_ + 1
       /\ (lret'.op = "pop_back" /\ list[lret'.l].size_ # 0) =>
            LET l == lret'.l
                last == back(hooks, l)
            IN  /\ ~lret'.fault
                /\ lret'.e = last
                /\ Elements(hooks, l) = Elements(hooks', l) \o <<last>>
                /\ list'[l].size_ = list[l].size_ - 1]_vars

\* This step is a clear() of a list that ends after as many erase steps as
\* the list holds elements (the loop runs size_ times, once per decrement)
\* and leaves the list an empty ring: size() = 0, begin() = end(), the
\* sentinel linked to itself both ways.
ClearEmpties ==
    (lret'.op = "clear") =>
        LET l == lret'.l
        IN  /\ ~lret'.fault
            /\ list[l].size_ = Len(Elements(hooks, l))
            /\ \A i \in 1..Len(Elements(hooks, l)) :
                   Elements(hooks, l)[i] \in Elems
            /\ list'[l].size_ = 0
            /\ begin(hooks', l) = end(l)
            /\ hooks'[sentinel_(l)] = self_linked(sentinel_(l))

\* C35: clear() on any reachable list terminates after a number of erase
\* steps equal to the number of linked elements, erasing from the front
\* each time, and leaves the list an empty ring without destroying any
\* element.
ListClearContract == [][ClearEmpties]_vars

\* C36: every buffer slot of a set follows a construct/destroy discipline
\* across any sequence of operations; in particular a buffer is released
\* only when none of its slots holds an undestroyed object: no call leaves
\* objects alive in a buffer it has released.
SlotDiscipline == [][ret'.und = 0]_vars

\* The copy operations of list_hook are told by their effects: the copy
\* constructor yields a free hook, the copy assignment leaves the target's
\* links as they were.  A list that relinked its sentinel instead would
\* hold, after a move construction, anything but a free hook, and after a
\* move assignment from, or a swap with, a list whose ring is not empty,
\* other links than before.
MoveConstructCopiesNoHook ==
    (lret'.op = "move_construct") =>
        hooks'[sentinel_(lret'.l)] # hook_copy(hooks[lret'.e])

MoveAssignCopiesNoHook ==
    (/\ lret'.op = "move_assign"
     /\ ~lret'.fault
     /\ hooks[lret'.e] # self_linked(lret'.e)) =>
        LET l       == lret'.l
            cleared == list_clear(l, hooks, list[l].size_).hooks
        IN  hooks'[sentinel_(l)] #
                hook_assign(cleared[sentinel_(l)], cleared[lret'.e])

SwapCopiesNoHook ==
    (/\ lret'.op = "swap"
     /\ lret'.e # sentinel_(lret'.l)
     /\ \/ hooks[lret'.e] # self_linked(lret'.e)
        \/ hooks[sentinel_(lret'.l)] # self_linked(sentinel_(lret'.l))) =>
        <<hooks'[sentinel_(lret'.l)], hooks'[lret'.e]>> #
            hook_swap(hooks[sentinel_(lret'.l)], hooks[lret'.e])

\* C37: the list class never copies a list hook: no list operation invokes
\* list_hook's copy constructor or copy assignment, whose effects are to
\* produce a free hook and to leave the target's links untouched.
ListCopiesNoHook ==
    [][/\ MoveConstructCopiesNoHook
       /\ MoveAssignCopiesNoHook
       /\ SwapCopiesNoHook]_vars

\* C38: every element read or write performed by a set operation addresses
\* a slot whose index lies in [0, number of slots allocated for that
\* buffer), a non-reallocating insert at index 0 and a reallocating insert
\* from capacity 0 included: no call touches a slot outside its buffer.
AccessesInBounds == [][(Idle /\ ~Idle') => "oob" \notin ret'.mem]_vars

\* C39: after move construction or move assignment from a set S built with
\* a custom comparator object, the destination's comparator is S's
\* comparator, so the moved elements, strictly ascending under S's
\* comparator, are strictly ascending under the destination's own
\* key_comp().
MoveCarriesComparator ==
    [][(Calls("move_construct") \/ Calls("move_assign")) =>
        LET S == sv_set[Other(ret'.s)]
        IN  /\ AfterCall.comp_ = S.comp_
            /\ Ordered(S.elems, S.comp_) =>
                   Ordered(AfterCall.elems, AfterCall.comp_)]_vars

\* C40: if the buffer allocation or the copy of an element fails during
\* reserve(n) or shrink_to_fit(), the failure propagates and the set is
\* unchanged: size, capacity, owned buffer and element values are as
\* before the call, and the newly allocated buffer is released exactly
\* once, with no object left in it.
RelocateStrongGuarantee ==
    [][((Calls("reserve") \/ Calls("shrink_to_fit")) /\ ret'.exc) =>
        /\ sv_set' = sv_set
        /\ AfterCall.size_ = Callee.size_
        /\ AfterCall.capacity_ = Callee.capacity_
        /\ AfterCall.elems = Callee.elems
        /\ "dfree" \notin ret'.mem
        /\ ret'.und = 0]_vars

\* A reserve on a set of two elements has failed.
RelocateStrongGuaranteeWitness ==
    /\ ret.op = "reserve"
    /\ ret.exc
    /\ sv_set[ret.s].size_ = 2
    /\ sv_set[ret.s].elems = <<1, 2>>
    /\ sv_set[ret.s].capacity_ = 2

====
